---- MODULE Spec2Model ----
(***************************************************************************)
(* Model of helpers/loader/appconfig_loader.go: the version parser         *)
(* parseVersion, the initializer loadConfig and the lazy singleton         *)
(* accessor AppConfig.                                                     *)
(*                                                                         *)
(* Strings that the code inspects character by character (version         *)
(* strings, FB_SDK_VERSION) are sequences of one-character strings.        *)
(* Unsigned integers are canonical decimal numerals (a sequence of digit   *)
(* characters without leading zeros), so that the 64-bit range of the      *)
(* Major/Minor/Build fields is kept exactly.                               *)
(***************************************************************************)
EXTENDS Integers, Sequences, FiniteSets, TLC

VARIABLES
    v,              \* parseVersion: the argument of the call under study
    parsed,         \* parseVersion: the returned *appVersion, or NoResult
    fileSys,        \* what os.ReadFile(config.DEFAULT) finds right now
    env,            \* the process environment (os.Getenv)
    heap,           \* allocated AppConfigType records, indexed by pointer
    loadedConfig,   \* the package variable: a pointer into heap, or Nil
    pc,             \* per caller: position in AppConfig / loadConfig
    local,          \* per caller: loadConfig's local variables
    returned,       \* per caller: the results AppConfig handed back so far
    proc,           \* "running", "exited" (os.Exit(1)) or "panicked"
    stderr,         \* diagnostics written to os.Stderr, in order
    loads,          \* number of times loadConfig was entered
    changes         \* number of environment / file changes made so far

vars == <<v, parsed, fileSys, env, heap, loadedConfig, pc, local, returned,
          proc, stderr, loads, changes>>

loaderVars == <<fileSys, env, heap, loadedConfig, pc, local, returned,
                proc, stderr, loads, changes>>

-----------------------------------------------------------------------------
(* Bounds of the model *)

MaxPad == 1          \* longest run of extra characters around a version
MaxCalls == 2        \* AppConfig calls the single caller makes
MaxChanges == 1      \* environment / config path changes between calls
MaxConcCalls == 1    \* AppConfig calls each concurrent caller makes

-----------------------------------------------------------------------------
(* Characters and strings *)

Digits == {"0", "1", "2", "3", "4", "5", "6", "7", "8", "9"}

DigitOrd ==
    [c \in Digits |->
        CASE c = "0" -> 0 [] c = "1" -> 1 [] c = "2" -> 2 [] c = "3" -> 3
          [] c = "4" -> 4 [] c = "5" -> 5 [] c = "6" -> 6 [] c = "7" -> 7
          [] c = "8" -> 8 [] c = "9" -> 9]

EmptyStr == << >>

Slice(s, from, to) == [i \in 1..(to - from) |-> s[from + i]]

AllDigits(s) == \A i \in 1..Len(s) : s[i] \in Digits

HasAt(s, i, lit) ==
    /\ i + Len(lit) <= Len(s)
    /\ \A k \in 1..Len(lit) : s[i + k] = lit[k]

alpha == <<"a", "l", "p", "h", "a">>
beta == <<"b", "e", "t", "a">>
build == <<"b", "u", "i", "l", "d">>
testing == <<"t", "e", "s", "t", "i", "n", "g">>

\* the alternation (alpha|beta|build|testing), in the order the pattern tries it
ReleaseAlternatives == <<alpha, beta, build, testing>>

-----------------------------------------------------------------------------
(* strconv.ParseUint(s, 10, 64) *)

Zero == <<"0">>

MaxUint64 ==
    <<"1", "8", "4", "4", "6", "7", "4", "4", "0", "7",
      "3", "7", "0", "9", "5", "5", "1", "6", "1", "5">>

RECURSIVE StripZeros(_)
StripZeros(d) ==
    IF Len(d) > 1 /\ Head(d) = "0" THEN StripZeros(Tail(d)) ELSE d

\* a < b for canonical numerals
NumLess(a, b) ==
    \/ Len(a) < Len(b)
    \/ /\ Len(a) = Len(b)
       /\ \E i \in 1..Len(a) :
            /\ \A k \in 1..(i - 1) : a[k] = b[k]
            /\ DigitOrd[a[i]] < DigitOrd[b[i]]

ParseUint(s) ==
    IF s = EmptyStr \/ ~AllDigits(s)
    THEN [val |-> Zero, err |-> "ErrSyntax"]
    ELSE IF NumLess(MaxUint64, StripZeros(s))
         THEN [val |-> MaxUint64, err |-> "ErrRange"]
         ELSE [val |-> StripZeros(s), err |-> "nil"]

-----------------------------------------------------------------------------
(* The pattern vpatt and regexp.FindStringSubmatchIndex / ExpandString *)

\* index (0-based) of the first non-digit at or after offset i, Len(s) if none
DigitRunEnd(s, i) ==
    IF \E j \in i..(Len(s) - 1) : s[j + 1] \notin Digits
    THEN CHOOSE j \in i..(Len(s) - 1) :
            /\ s[j + 1] \notin Digits
            /\ \A k \in i..(j - 1) : s[k + 1] \in Digits
    ELSE Len(s)

\* vpatt with the release group made optional: (?P<release>(...))?
MatchAtOptionalRelease(s, i) ==
    LET e1 == DigitRunEnd(s, i)
        e2 == DigitRunEnd(s, e1 + 1)
        e3 == DigitRunEnd(s, e2 + 1)
        rel == {k \in 1..Len(ReleaseAlternatives) :
                    HasAt(s, e3 + 1, ReleaseAlternatives[k])}
    IN  IF /\ e1 > i /\ HasAt(s, e1, <<".">>)
           /\ e2 > e1 + 1 /\ HasAt(s, e2, <<".">>)
           /\ e3 > e2 + 1
        THEN IF HasAt(s, e3, <<"-">>) /\ rel # {}
             THEN LET k == CHOOSE x \in rel : \A y \in rel : x <= y
                      e4 == e3 + 1 + Len(ReleaseAlternatives[k])
                  IN  <<i, e4, i, e1, e1 + 1, e2, e2 + 1, e3, e3 + 1, e4, e3 + 1, e4>>
             ELSE <<i, e3, i, e1, e1 + 1, e2, e2 + 1, e3, -1, -1, -1, -1>>
        ELSE << >>

\* The match of vpatt that begins at offset i, as the index slice
\* [m0,m1, major, minor, build, release, inner group], or << >> when the
\* pattern does not match there.  Each \d+? is followed by a literal that is
\* not a digit, so the lazy run has to take every digit up to that literal.
MatchAt(s, i) ==
    LET e1 == DigitRunEnd(s, i)
        e2 == DigitRunEnd(s, e1 + 1)
        e3 == DigitRunEnd(s, e2 + 1)
        rel == {k \in 1..Len(ReleaseAlternatives) :
                    HasAt(s, e3 + 1, ReleaseAlternatives[k])}
    IN  IF /\ e1 > i /\ HasAt(s, e1, <<".">>)
           /\ e2 > e1 + 1 /\ HasAt(s, e2, <<".">>)
           /\ e3 > e2 + 1 /\ HasAt(s, e3, <<"-">>)
           /\ rel # {}
        THEN LET k == CHOOSE x \in rel : \A y \in rel : x <= y
                 e4 == e3 + 1 + Len(ReleaseAlternatives[k])
             IN  <<i, e4, i, e1, e1 + 1, e2, e2 + 1, e3, e3 + 1, e4, e3 + 1, e4>>
        ELSE << >>

\* leftmost match, nil (<< >>) when there is none
FindStringSubmatchIndex(s) ==
    LET starts == {i \in 0..(Len(s) - 1) : MatchAt(s, i) # << >>}
    IN  IF starts = {} THEN << >>
        ELSE MatchAt(s, CHOOSE i \in starts : \A j \in starts : i <= j)

\* subexpression numbers of the named groups
MAJOR == 1
MINOR == 2
BUILD == 3
RELEASE == 4

\* ExpandString([]byte{}, "$name", src, match): the text of group g, or
\* nothing when the match slice is too short (nil) or the group is unset
ExpandString(g, src, match) ==
    IF 2 * g + 1 < Len(match) /\ match[2 * g + 1] >= 0
    THEN Slice(src, match[2 * g + 1], match[2 * g + 2])
    ELSE EmptyStr

parseVersionSwapped(str) ==
    LET dmatch == FindStringSubmatchIndex(str)
        major == ParseUint(ExpandString(MAJOR, str, dmatch)).val
        minor == ParseUint(ExpandString(MINOR, str, dmatch)).val
        bld == ParseUint(ExpandString(BUILD, str, dmatch)).val
    IN  [Major |-> major, Minor |-> bld, Build |-> minor,
         Release |-> ExpandString(RELEASE, str, dmatch)]

parseVersion(str) ==
    LET dmatch == FindStringSubmatchIndex(str)
        major == ParseUint(ExpandString(MAJOR, str, dmatch)).val
        minor == ParseUint(ExpandString(MINOR, str, dmatch)).val
        bld == ParseUint(ExpandString(BUILD, str, dmatch)).val
    IN  [Major |-> major, Minor |-> minor, Build |-> bld,
         Release |-> ExpandString(RELEASE, str, dmatch)]

-----------------------------------------------------------------------------
(* Sample inputs of parseVersion *)

OverMaxUint64 ==
    <<"1", "8", "4", "4", "6", "7", "4", "4", "0", "7",
      "3", "7", "0", "9", "5", "5", "1", "6", "1", "6">>

TwentyOneDigits ==
    <<"1", "0", "0", "0", "0", "0", "0", "0", "0", "0", "0",
      "0", "0", "0", "0", "0", "0", "0", "0", "0", "0">>

DigitRuns ==
    {EmptyStr, <<"0">>, <<"2">>, <<"1", "0">>, <<"0", "0", "7">>,
     MaxUint64, OverMaxUint64, TwentyOneDigits}

Labels == {alpha, beta, build, testing}

\* what follows the build number: a release tag, or something that is not one
Tails ==
    {<<"-">> \o l : l \in Labels}
    \cup {EmptyStr, <<"-", "r", "c">>, alpha}

PadChars == {"x", "7"}

\* every string over chars of length at most n
RECURSIVE StringsUpTo(_, _)
StringsUpTo(chars, n) ==
    IF n = 0 THEN {EmptyStr}
    ELSE LET shorter == StringsUpTo(chars, n - 1)
         IN  shorter \cup {Append(s, c) : s \in shorter, c \in chars}

garbage == <<"g", "a", "r", "b", "a", "g", "e">>

VersionInputs ==
    {pre \o a \o <<".">> \o b \o <<".">> \o c \o tail \o suf :
        pre \in StringsUpTo(PadChars, MaxPad),
        a \in DigitRuns, b \in DigitRuns, c \in DigitRuns,
        tail \in Tails,
        suf \in StringsUpTo({"x"}, MaxPad)}
    \cup {EmptyStr, garbage, <<"1", ".", "2", ".", "3">>,
          <<"2", ".", "5", ".", "1", "0", "-">> \o testing}

NoResult == << >>

-----------------------------------------------------------------------------
(* parseVersion as an operation: one call on an arbitrary argument *)

CallParseVersion ==
    /\ parsed = NoResult
    /\ parsed' = <<parseVersion(v)>>
    /\ UNCHANGED <<v, loaderVars>>

-----------------------------------------------------------------------------
(* The configuration file, the environment and the record *)

Nil == 0

NilVersion == << >>

Callers == {1, 2}

\* what AppConfigType's string fields hold in &AppConfigType{GormConfig: ...}
NewAppConfig ==
    [Version |-> EmptyStr, VersionInfo |-> NilVersion,
     FbSdkVersion |-> EmptyStr, FbClientId |-> "", FbClientSecret |-> "",
     FbRedirectUri |-> "", ServerAddr |-> "", Message |-> "",
     Mysql_dsn |-> "", MysqlConfig |-> "nil", GormConfig |-> "&gorm.Config{}"]

\* the fields of AppConfigType a JSON object of the sample files may set
JsonFields ==
    {"Version", "FbSdkVersion", "FbClientId", "FbClientSecret",
     "FbRedirectUri", "ServerAddr", "Message", "Mysql_dsn"}

Absent == << >>

MockVersion == <<"1", ".", "0", ".", "0", "-">> \o testing

MockMessage == "This message is coming from the mocks/app_config.json"

\* tests/mocks/app_config.json as the test expects it: version and message
MockDoc ==
    [kind |-> "object",
     fields |-> [k \in JsonFields |->
                    CASE k = "Version" -> <<MockVersion>>
                      [] k = "Message" -> <<MockMessage>>
                      [] OTHER -> Absent]]

\* a file that also holds the keys the environment overlays
FullDoc ==
    [kind |-> "object",
     fields |-> [k \in JsonFields |->
                    CASE k = "Version" -> <<<<"2", ".", "5", ".", "1", "0", "-">> \o beta>>
                      [] k = "Message" -> <<"hello">>
                      [] k = "FbSdkVersion" -> <<<<"f", "i", "l", "e">>>>
                      [] k = "FbClientId" -> <<"file-id">>
                      [] k = "FbClientSecret" -> <<"file-secret">>
                      [] k = "FbRedirectUri" -> <<"file-uri">>
                      [] k = "ServerAddr" -> <<"file-addr">>
                      [] k = "Mysql_dsn" -> <<"file-dsn">>]]

\* the empty object {} : every key absent
EmptyDoc == [kind |-> "object", fields |-> [k \in JsonFields |-> Absent]]

\* a version that is not of the expected format
GarbageDoc ==
    [kind |-> "object",
     fields |-> [k \in JsonFields |->
                    CASE k = "Version" -> <<garbage>>
                      [] k = "Message" -> <<"hello">>
                      [] OTHER -> Absent]]

\* an object with a value of the wrong type under one key: json.Unmarshal
\* decodes the other keys and then returns an UnmarshalTypeError
MismatchDoc ==
    [kind |-> "mismatch",
     fields |-> [k \in JsonFields |->
                    CASE k = "Message" -> <<"hello">>
                      [] k = "FbClientId" -> <<"file-id">>
                      [] OTHER -> Absent]]

Unreadable == [kind |-> "unreadable"]    \* os.ReadFile returns an error
Malformed == [kind |-> "malformed"]      \* not JSON: json.Unmarshal returns an error
NullDoc == [kind |-> "null"]             \* the JSON document null

Files ==
    {Unreadable, Malformed, MismatchDoc, NullDoc, MockDoc, FullDoc, EmptyDoc,
     GarbageDoc}

NoBytes == [kind |-> "none"]

SdkValues ==
    {EmptyStr,
     <<"1", "2", ".", "3">>,
     <<"v", "1", ".", "3">>,
     <<"v", "1", "2", ".", "3">>,
     <<"v", "1", "2", "3", ".", "4">>,
     <<"v", "1", "2", ".", "3", "4">>,
     <<"x", "v", "1", "2", ".", "3">>}

PlainVars ==
    {"FB_CLIENT_ID", "FB_CLIENT_SECRET", "FB_REDIRECT_URI", "MYSQL_DSN",
     "SERVER_ADDR"}

EnvVars == {"FB_SDK_VERSION"} \cup PlainVars

\* os.Getenv gives "" for a variable that is not set
EnvValues(k) ==
    IF k = "FB_SDK_VERSION" THEN SdkValues ELSE {"", "env-" \o k}

\* which of the unvalidated variables are set when the process starts
StartSets == {{}, PlainVars, {"FB_CLIENT_ID", "MYSQL_DSN"}}

StartEnvs ==
    {[k \in EnvVars |->
        IF k = "FB_SDK_VERSION" THEN sdk
        ELSE IF k \in set THEN "env-" \o k ELSE ""] :
        sdk \in SdkValues, set \in StartSets}

Getenv(k) == env[k]

\* sdkverpatt.MatchString: ^v\d{2,}[.]\d{1}$
MatchSdkOneDigit(s) ==
    /\ Len(s) >= 4
    /\ s[1] = "v"
    /\ LET e == DigitRunEnd(s, 1)
       IN  /\ e - 1 >= 1
           /\ e = Len(s) - 2
           /\ s[e + 1] = "."
           /\ s[e + 2] \in Digits

MatchSdk(s) ==
    /\ Len(s) >= 5
    /\ s[1] = "v"
    /\ LET e == DigitRunEnd(s, 1)
       IN  /\ e - 1 >= 2
           /\ e = Len(s) - 2
           /\ s[e + 1] = "."
           /\ s[e + 2] \in Digits

ReadDiag == "error loading app_config.json: "
UnmarshalDiag == "error unmarshaling app_config.json: "
SdkDiag == "FB_SDK_VERSION did not satisfy the expected version regexp."

\* json.Unmarshal of an object into an existing record: keys that are present
\* overwrite, everything else is left as it was
Decode(doc, rec) ==
    [k \in DOMAIN rec |->
        IF k \in JsonFields /\ doc.fields[k] # Absent
        THEN doc.fields[k][1]
        ELSE rec[k]]

NoLocals ==
    [b |-> NoBytes, fbSdkVer |-> EmptyStr, fbClientId |-> "",
     fbClientSecret |-> "", fbRedirectUri |-> ""]

-----------------------------------------------------------------------------
(* AppConfig and loadConfig, one statement at a time *)

Exit(diag) ==
    /\ stderr' = Append(stderr, diag)
    /\ proc' = "exited"

Goto(c, label) == pc' = [pc EXCEPT ![c] = label]

\* AppConfig's test of the package variable (line 120)
NotLoadedAlways(ptr) == TRUE

NotLoaded(ptr) == ptr = Nil

\* a caller enters AppConfig()
Call(c, limit) ==
    /\ proc = "running"
    /\ pc[c] = "idle"
    /\ Len(returned[c]) < limit
    /\ Goto(c, "L120")
    /\ UNCHANGED <<v, parsed, fileSys, env, heap, loadedConfig, local,
                   returned, proc, stderr, loads, changes>>

\* if loadedConfig == nil { loadConfig() }
CheckLoaded(c) ==
    /\ proc = "running"
    /\ pc[c] = "L120"
    /\ IF NotLoaded(loadedConfig) THEN Goto(c, "L81") ELSE Goto(c, "L124")
    /\ UNCHANGED <<v, parsed, fileSys, env, heap, loadedConfig, local,
                   returned, proc, stderr, loads, changes>>

\* loadedConfig = &AppConfigType{GormConfig: &gorm.Config{}}
Allocate(c) ==
    /\ proc = "running"
    /\ pc[c] = "L81"
    /\ heap' = Append(heap, NewAppConfig)
    /\ loadedConfig' = Len(heap) + 1
    /\ loads' = loads + 1
    /\ local' = [local EXCEPT ![c] = NoLocals]
    /\ Goto(c, "L85")
    /\ UNCHANGED <<v, parsed, fileSys, env, returned, proc, stderr, changes>>

\* the read with the os.Exit(1) of line 88 left out: the empty b goes on to
\* json.Unmarshal, which rejects it
ReadFileNoExit(c) ==
    /\ proc = "running"
    /\ pc[c] = "L85"
    /\ IF fileSys.kind = "unreadable"
       THEN /\ stderr' = Append(stderr, ReadDiag)
            /\ local' = [local EXCEPT ![c].b = Malformed]
            /\ Goto(c, "L91")
            /\ UNCHANGED proc
       ELSE /\ local' = [local EXCEPT ![c].b = fileSys]
            /\ Goto(c, "L91")
            /\ UNCHANGED <<proc, stderr>>
    /\ UNCHANGED <<v, parsed, fileSys, env, heap, loadedConfig, returned,
                   loads, changes>>

\* b, err := os.ReadFile(config.DEFAULT); on error report and exit
ReadFile(c) ==
    /\ proc = "running"
    /\ pc[c] = "L85"
    /\ IF fileSys.kind = "unreadable"
       THEN /\ Exit(ReadDiag)
            /\ UNCHANGED <<pc, local>>
       ELSE /\ local' = [local EXCEPT ![c].b = fileSys]
            /\ Goto(c, "L91")
            /\ UNCHANGED <<proc, stderr>>
    /\ UNCHANGED <<v, parsed, fileSys, env, heap, loadedConfig, returned,
                   loads, changes>>

\* err = json.Unmarshal(b, &loadedConfig); on error report and exit.
\* The target is the pointer variable itself: null stores nil in it, an
\* object is decoded into the record it points to (a new one if it is nil).
Unmarshal(c) ==
    /\ proc = "running"
    /\ pc[c] = "L91"
    /\ LET b == local[c].b
       IN  CASE b.kind = "malformed" ->
                    /\ Exit(UnmarshalDiag)
                    /\ UNCHANGED <<pc, heap, loadedConfig>>
             [] b.kind = "mismatch" /\ loadedConfig = Nil ->
                    /\ heap' = Append(heap, Decode(b, [NewAppConfig EXCEPT
                                    !.GormConfig = "nil"]))
                    /\ loadedConfig' = Len(heap) + 1
                    /\ Exit(UnmarshalDiag)
                    /\ UNCHANGED pc
             [] b.kind = "mismatch" /\ loadedConfig # Nil ->
                    /\ heap' = [heap EXCEPT ![loadedConfig] = Decode(b, @)]
                    /\ Exit(UnmarshalDiag)
                    /\ UNCHANGED <<pc, loadedConfig>>
             [] b.kind = "null" ->
                    /\ loadedConfig' = Nil
                    /\ Goto(c, "L99")
                    /\ UNCHANGED <<heap, proc, stderr>>
             [] b.kind = "object" /\ loadedConfig = Nil ->
                    /\ heap' = Append(heap, Decode(b, [NewAppConfig EXCEPT
                                    !.GormConfig = "nil"]))
                    /\ loadedConfig' = Len(heap) + 1
                    /\ Goto(c, "L99")
                    /\ UNCHANGED <<proc, stderr>>
             [] b.kind = "object" /\ loadedConfig # Nil ->
                    /\ heap' = [heap EXCEPT ![loadedConfig] = Decode(b, @)]
                    /\ Goto(c, "L99")
                    /\ UNCHANGED <<loadedConfig, proc, stderr>>
    /\ UNCHANGED <<v, parsed, fileSys, env, local, returned, loads, changes>>

\* the four os.Getenv calls of lines 99-102
ReadEnv(c) ==
    /\ proc = "running"
    /\ pc[c] = "L99"
    /\ local' = [local EXCEPT ![c].fbSdkVer = Getenv("FB_SDK_VERSION"),
                              ![c].fbClientId = Getenv("FB_CLIENT_ID"),
                              ![c].fbClientSecret = Getenv("FB_CLIENT_SECRET"),
                              ![c].fbRedirectUri = Getenv("FB_REDIRECT_URI")]
    /\ Goto(c, "L104")
    /\ UNCHANGED <<v, parsed, fileSys, env, heap, loadedConfig, returned,
                   proc, stderr, loads, changes>>

\* if !sdkverpatt.MatchString(fbSdkVer) { report and exit }
Validate(c) ==
    /\ proc = "running"
    /\ pc[c] = "L104"
    /\ IF ~MatchSdk(local[c].fbSdkVer)
       THEN /\ Exit(SdkDiag)
            /\ UNCHANGED pc
       ELSE /\ Goto(c, "L109")
            /\ UNCHANGED <<proc, stderr>>
    /\ UNCHANGED <<v, parsed, fileSys, env, heap, loadedConfig, local,
                   returned, loads, changes>>

\* the overlay applied only where the environment variable is set
AssignmentIfSet(c, line) ==
    LET keep(field, val) ==
            IF val = "" /\ loadedConfig # Nil THEN heap[loadedConfig][field]
            ELSE val
    IN  CASE line = "L109" ->
                [field |-> "VersionInfo", next |-> "L110",
                 value |-> IF loadedConfig = Nil THEN NilVersion
                           ELSE <<parseVersion(heap[loadedConfig].Version)>>]
          [] line = "L110" ->
                [field |-> "FbClientId", next |-> "L111",
                 value |-> keep("FbClientId", local[c].fbClientId)]
          [] line = "L111" ->
                [field |-> "FbClientSecret", next |-> "L112",
                 value |-> keep("FbClientSecret", local[c].fbClientSecret)]
          [] line = "L112" ->
                [field |-> "FbSdkVersion", next |-> "L113",
                 value |-> local[c].fbSdkVer]
          [] line = "L113" ->
                [field |-> "FbRedirectUri", next |-> "L114",
                 value |-> keep("FbRedirectUri", local[c].fbRedirectUri)]
          [] line = "L114" ->
                [field |-> "Mysql_dsn", next |-> "L115",
                 value |-> keep("Mysql_dsn", Getenv("MYSQL_DSN"))]
          [] line = "L115" ->
                [field |-> "ServerAddr", next |-> "L124",
                 value |-> keep("ServerAddr", Getenv("SERVER_ADDR"))]

\* the statement at each of lines 109-115: the field it assigns through
\* loadedConfig, the value, and the line that follows
Assignment(c, line) ==
    CASE line = "L109" ->
            [field |-> "VersionInfo", next |-> "L110",
             value |-> IF loadedConfig = Nil THEN NilVersion
                       ELSE <<parseVersion(heap[loadedConfig].Version)>>]
      [] line = "L110" ->
            [field |-> "FbClientId", next |-> "L111",
             value |-> local[c].fbClientId]
      [] line = "L111" ->
            [field |-> "FbClientSecret", next |-> "L112",
             value |-> local[c].fbClientSecret]
      [] line = "L112" ->
            [field |-> "FbSdkVersion", next |-> "L113",
             value |-> local[c].fbSdkVer]
      [] line = "L113" ->
            [field |-> "FbRedirectUri", next |-> "L114",
             value |-> local[c].fbRedirectUri]
      [] line = "L114" ->
            [field |-> "Mysql_dsn", next |-> "L115",
             value |-> Getenv("MYSQL_DSN")]
      [] line = "L115" ->
            [field |-> "ServerAddr", next |-> "L124",
             value |-> Getenv("SERVER_ADDR")]

AssignLines == {"L109", "L110", "L111", "L112", "L113", "L114", "L115"}

\* loadedConfig.<field> = <value>; a nil loadedConfig is a nil pointer
\* dereference, which panics
Assign(c) ==
    /\ proc = "running"
    /\ pc[c] \in AssignLines
    /\ LET a == Assignment(c, pc[c])
       IN  IF loadedConfig = Nil
           THEN /\ proc' = "panicked"
                /\ UNCHANGED <<pc, heap>>
           ELSE /\ heap' = [heap EXCEPT ![loadedConfig][a.field] = a.value]
                /\ Goto(c, a.next)
                /\ UNCHANGED proc
    /\ UNCHANGED <<v, parsed, fileSys, env, loadedConfig, local, returned,
                   stderr, loads, changes>>

\* what the caller receives: the pointer and, for the checks, the record it
\* points to at that moment
Result(ptr) ==
    [ptr |-> ptr, rec |-> IF ptr = Nil THEN << >> ELSE <<heap[ptr]>>]

\* return loadedConfig
Return(c) ==
    /\ proc = "running"
    /\ pc[c] = "L124"
    /\ returned' = [returned EXCEPT ![c] = Append(@, Result(loadedConfig))]
    /\ Goto(c, "idle")
    /\ UNCHANGED <<v, parsed, fileSys, env, heap, loadedConfig, local,
                   proc, stderr, loads, changes>>

\* between two of its calls the caller changes an environment variable
Setenv(c) ==
    /\ proc = "running"
    /\ pc[c] = "idle"
    /\ changes < MaxChanges
    /\ \E k \in EnvVars : \E val \in EnvValues(k) :
            /\ val # env[k]
            /\ env' = [env EXCEPT ![k] = val]
    /\ changes' = changes + 1
    /\ UNCHANGED <<v, parsed, fileSys, heap, loadedConfig, pc, local,
                   returned, proc, stderr, loads>>

\* between two of its calls the caller points config.DEFAULT at another file
\* (as the test does) or the file is rewritten
SetConfigPath(c) ==
    /\ proc = "running"
    /\ pc[c] = "idle"
    /\ changes < MaxChanges
    /\ \E f \in Files :
            /\ f # fileSys
            /\ fileSys' = f
    /\ changes' = changes + 1
    /\ UNCHANGED <<v, parsed, env, heap, loadedConfig, pc, local,
                   returned, proc, stderr, loads>>

-----------------------------------------------------------------------------
(* Specifications *)

LoaderStart ==
    /\ fileSys \in Files
    /\ env \in StartEnvs
    /\ heap = << >>
    /\ loadedConfig = Nil
    /\ pc = [c \in Callers |-> "idle"]
    /\ local = [c \in Callers |-> NoLocals]
    /\ returned = [c \in Callers |-> << >>]
    /\ proc = "running"
    /\ stderr = << >>
    /\ loads = 0
    /\ changes = 0

\* a single caller calling AppConfig again and again
Init ==
    /\ v = EmptyStr
    /\ parsed = NoResult
    /\ LoaderStart

Next ==
    \/ Call(1, MaxCalls)
    \/ CheckLoaded(1)
    \/ Allocate(1)
    \/ ReadFile(1)
    \/ Unmarshal(1)
    \/ ReadEnv(1)
    \/ Validate(1)
    \/ Assign(1)
    \/ Return(1)
    \/ Setenv(1)
    \/ SetConfigPath(1)

Spec == Init /\ [][Next]_vars

\* Several goroutines calling AppConfig with nothing to order them.  The
\* accesses to loadedConfig race; the behaviours here are the interleavings
\* of whole statements, a subset of what the race allows.
InitConc == Init

NextConc ==
    \E c \in Callers :
        \/ Call(c, MaxConcCalls)
        \/ CheckLoaded(c)
        \/ Allocate(c)
        \/ ReadFile(c)
        \/ Unmarshal(c)
        \/ ReadEnv(c)
        \/ Validate(c)
        \/ Assign(c)
        \/ Return(c)

SpecConc == InitConc /\ [][NextConc]_vars

\* parseVersion on its own
InitParse ==
    /\ v \in VersionInputs
    /\ parsed = NoResult
    /\ fileSys = MockDoc
    /\ env = [k \in EnvVars |-> IF k = "FB_SDK_VERSION"
                                THEN <<"v", "1", "2", ".", "3">> ELSE ""]
    /\ heap = << >>
    /\ loadedConfig = Nil
    /\ pc = [c \in Callers |-> "idle"]
    /\ local = [c \in Callers |-> NoLocals]
    /\ returned = [c \in Callers |-> << >>]
    /\ proc = "running"
    /\ stderr = << >>
    /\ loads = 0
    /\ changes = 0

NextParse == CallParseVersion

SpecParse == InitParse /\ [][NextParse]_vars

-----------------------------------------------------------------------------
(* What the claims about parseVersion speak of, stated without the matcher *)

Positions(s, ch) == {i \in 1..Len(s) : s[i] = ch}

\* every way of reading the whole of s as <digits>.<digits>.<digits>-<label>
WholeForms(s) ==
    {[major |-> Slice(s, 0, t[1] - 1), minor |-> Slice(s, t[1], t[2] - 1),
      build |-> Slice(s, t[2], t[3] - 1), release |-> Slice(s, t[3], Len(s))] :
        t \in {u \in Positions(s, ".") \X Positions(s, ".") \X Positions(s, "-") :
                /\ 1 < u[1] /\ u[1] + 1 < u[2] /\ u[2] + 1 < u[3]
                /\ AllDigits(Slice(s, 0, u[1] - 1))
                /\ AllDigits(Slice(s, u[1], u[2] - 1))
                /\ AllDigits(Slice(s, u[2], u[3] - 1))
                /\ Slice(s, u[3], Len(s)) \in Labels}}

\* some substring of s is of the form <digits>.<digits>.<digits>-<label>
ContainsForm(s) ==
    \E p1 \in Positions(s, "."), p2 \in Positions(s, "."), p3 \in Positions(s, "-") :
        /\ 1 < p1 /\ s[p1 - 1] \in Digits
        /\ p1 + 1 < p2 /\ AllDigits(Slice(s, p1, p2 - 1))
        /\ p2 + 1 < p3 /\ AllDigits(Slice(s, p2, p3 - 1))
        /\ \E l \in Labels : HasAt(s, p3, l)

\* the value of a digit sequence as a numeral of unbounded size
NumericValue(d) == StripZeros(d)

FitsUint64(d) == ~NumLess(MaxUint64, NumericValue(d))

ZeroVersion == [Major |-> Zero, Minor |-> Zero, Build |-> Zero, Release |-> EmptyStr]

\* C1 as claimed: for every string that is, as a whole,
\* <major>.<minor>.<build>-<release>, parseVersion returns exactly the numeric
\* values of the three digit sequences and exactly the label.
C1_ExactComponents ==
    parsed # NoResult =>
        \A w \in WholeForms(v) :
            /\ parsed[1].Major = NumericValue(w.major)
            /\ parsed[1].Minor = NumericValue(w.minor)
            /\ parsed[1].Build = NumericValue(w.build)
            /\ parsed[1].Release = w.release

\* C1 amended: the same, for each digit sequence whose value fits the 64-bit
\* unsigned field it is stored in; the label is always exact.
C1_ExactComponentsInRange ==
    parsed # NoResult =>
        \A w \in WholeForms(v) :
            /\ FitsUint64(w.major) => parsed[1].Major = NumericValue(w.major)
            /\ FitsUint64(w.minor) => parsed[1].Minor = NumericValue(w.minor)
            /\ FitsUint64(w.build) => parsed[1].Build = NumericValue(w.build)
            /\ parsed[1].Release = w.release

\* C1 witness: a well-formed string with a multi-digit build number and three
\* different components has been parsed.
C1_Witness ==
    /\ parsed # NoResult
    /\ \E w \in WholeForms(v) :
            /\ Len(NumericValue(w.build)) = 2
            /\ w.major # w.minor /\ w.minor # w.build
            /\ FitsUint64(w.major) /\ FitsUint64(w.minor)
            /\ w.release = testing

\* C2 as claimed: every string that is not as a whole of the form
\* <digits>.<digits>.<digits>-<label> parses to 0, 0, 0, "".
C2_ZeroUnlessWholeMatch ==
    (parsed # NoResult /\ WholeForms(v) = {}) => parsed[1] = ZeroVersion

\* C2 amended: every string that contains no substring of the form
\* <digits>.<digits>.<digits>-<label> parses to 0, 0, 0, "".
C2_ZeroUnlessContainsMatch ==
    (parsed # NoResult /\ ~ContainsForm(v)) => parsed[1] = ZeroVersion

\* C2 witness: three dotted numbers without a release tag have been parsed.
C2_Witness ==
    /\ parsed # NoResult
    /\ ~ContainsForm(v)
    /\ Len(v) >= 5 /\ AllDigits(<<v[1]>>) /\ v[2] = "."
    /\ Positions(v, "-") = {}

\* C7 as claimed: a numeric component whose text does not parse as a
\* non-negative integer that fits 64 bits is returned as zero.
C7_UnparsableIsZero ==
    parsed # NoResult =>
        LET m == FindStringSubmatchIndex(v)
            Unparsable(t) == t = EmptyStr \/ ~AllDigits(t) \/ ~FitsUint64(t)
        IN  /\ Unparsable(ExpandString(MAJOR, v, m)) => parsed[1].Major = Zero
            /\ Unparsable(ExpandString(MINOR, v, m)) => parsed[1].Minor = Zero
            /\ Unparsable(ExpandString(BUILD, v, m)) => parsed[1].Build = Zero

-----------------------------------------------------------------------------
(* What the claims about the loader speak of *)

\* the first call has not returned yet (it has not started, is running, or
\* ended the process)
FirstCallOpen == returned[1] = << >>

\* s is a "v", two or more digits, a dot and one digit, and nothing else
IsSdkVersion(s) ==
    /\ Len(s) >= 5
    /\ s[1] = "v"
    /\ \A i \in 2..(Len(s) - 2) : s[i] \in Digits
    /\ s[Len(s) - 1] = "."
    /\ s[Len(s)] \in Digits

SdkValid == IsSdkVersion(env["FB_SDK_VERSION"])

Deserializes == fileSys.kind \in {"null", "object"}

BeforeUnmarshal == {"idle", "L120", "L81", "L85"}
BeforeReadEnv == BeforeUnmarshal \cup {"L91"}
BeforeAttach == BeforeReadEnv \cup {"L99", "L104"}

\* the value json.Unmarshal leaves in a field of a fresh record
FileValue(k, zero) ==
    IF fileSys.fields[k] = Absent THEN zero ELSE fileSys.fields[k][1]

AllReturned == {r \in UNION {{returned[c][i] : i \in 1..Len(returned[c])} : c \in Callers} : TRUE}

\* with an invalid FB_SDK_VERSION the first call stays before line 109 and
\* the only diagnostic is the FB_SDK_VERSION one; returned records are valid
C3_State ==
    /\ (FirstCallOpen /\ Deserializes /\ ~SdkValid) =>
            /\ pc[1] \in BeforeAttach
            /\ proc # "panicked"
            /\ proc = "exited" => stderr = <<SdkDiag>>
            /\ stderr # << >> => proc = "exited"
    /\ \A r \in AllReturned : r.ptr # Nil /\ IsSdkVersion(r.rec[1].FbSdkVersion)

\* the step taken at line 104 with an invalid FB_SDK_VERSION is the exit
C3_Step ==
    (pc[1] = "L104" /\ FirstCallOpen /\ Deserializes /\ ~SdkValid) =>
        /\ proc' = "exited"
        /\ stderr' = <<SdkDiag>>
        /\ returned' = returned

C4_LoadedOnce ==
    /\ loads <= 1
    /\ pc[1] \in {"L81", "L85", "L91", "L99", "L104"} \cup AssignLines => FirstCallOpen
    /\ ~FirstCallOpen =>
            /\ loads = 1
            /\ returned[1][1].ptr # Nil
            /\ loadedConfig = returned[1][1].ptr
            /\ \A i \in 1..Len(returned[1]) : returned[1][i] = returned[1][1]
            /\ Result(loadedConfig) = returned[1][1]

\* C4 witness: a second call has returned after FB_CLIENT_ID was changed.
C4_Witness ==
    /\ Len(returned[1]) = 2
    /\ changes = 1
    /\ env["FB_CLIENT_ID"] # returned[1][2].rec[1].FbClientId

C6_State ==
    /\ Len(stderr) <= 1
    /\ stderr # << >> <=> proc = "exited"
    /\ (FirstCallOpen /\ fileSys.kind = "unreadable") =>
            /\ pc[1] \in BeforeUnmarshal
            /\ proc = "exited" => stderr = <<ReadDiag>>
            /\ \A p \in 1..Len(heap) : heap[p] = NewAppConfig
    /\ (FirstCallOpen /\ fileSys.kind \in {"malformed", "mismatch"}) =>
            /\ pc[1] \in BeforeReadEnv
            /\ proc = "exited" => stderr = <<UnmarshalDiag>>
            /\ \A p \in 1..Len(heap) :
                    \/ heap[p] = NewAppConfig
                    \/ /\ fileSys.kind = "mismatch"
                       /\ heap[p] = [NewAppConfig EXCEPT
                                        !.Message = FileValue("Message", ""),
                                        !.FbClientId = FileValue("FbClientId", "")]
    /\ FirstCallOpen /\ ~Deserializes => local[1] \in {NoLocals, [NoLocals EXCEPT !.b = fileSys]}
    /\ (proc = "exited" /\ stderr = <<SdkDiag>>) => Deserializes

\* the step taken at a failing read or unmarshal is the exit
C6_Step ==
    /\ (pc[1] = "L85" /\ FirstCallOpen /\ fileSys.kind = "unreadable") =>
            proc' = "exited" /\ stderr' = <<ReadDiag>>
    /\ (pc[1] = "L91" /\ FirstCallOpen /\ fileSys.kind \in {"malformed", "mismatch"}) =>
            proc' = "exited" /\ stderr' = <<UnmarshalDiag>>

\* C6: the fatal conditions are checked in the order read, deserialize,
\* validate and the first failure ends the process: an unreadable file exits
\* with the read diagnostic alone whatever FB_SDK_VERSION is, a file that
\* does not deserialize exits with the unmarshal diagnostic alone, and in
\* both cases no environment variable has been read or overlaid (the record
\* holds what was allocated or, at most, what the file gave).
C6_FirstFailureWins == []C6_State /\ [][C6_Step]_vars

\* C6 witness: the process has exited on an unreadable file while
\* FB_SDK_VERSION was invalid as well.
C6_Witness ==
    /\ proc = "exited"
    /\ fileSys.kind = "unreadable"
    /\ ~SdkValid
    /\ stderr = <<ReadDiag>>

\* C8 as claimed: no AppConfig call, under any interleaving of two callers,
\* returns a record whose VersionInfo is unattached, whose environment
\* overlay is missing or whose FB_SDK_VERSION was never validated (which is
\* what setting the package variable as the last step would give).
C8_OnlyCompleteRecordsReturned ==
    \A r \in AllReturned :
        /\ r.ptr # Nil
        /\ r.rec[1].VersionInfo # NilVersion
        /\ IsSdkVersion(r.rec[1].FbSdkVersion)
        /\ r.rec[1].FbSdkVersion = env["FB_SDK_VERSION"]
        /\ r.rec[1].FbClientId = env["FB_CLIENT_ID"]
        /\ r.rec[1].FbClientSecret = env["FB_CLIENT_SECRET"]
        /\ r.rec[1].FbRedirectUri = env["FB_REDIRECT_URI"]
        /\ r.rec[1].Mysql_dsn = env["MYSQL_DSN"]
        /\ r.rec[1].ServerAddr = env["SERVER_ADDR"]

\* C9 as claimed: under any interleaving loadConfig runs at most once, every
\* caller receives the same pointer, and the pointer a caller received is
\* still the one the package variable holds.
C9_OneLoadOnePointer ==
    /\ loads <= 1
    /\ \A r1 \in AllReturned, r2 \in AllReturned : r1.ptr = r2.ptr
    /\ \A r \in AllReturned : r.ptr = loadedConfig

\* C10 as claimed: the initializer ends in one of the three diagnosed exits
\* or completes; with a readable file that json.Unmarshal accepts (the
\* document null included) and a matching FB_SDK_VERSION it does not crash,
\* and AppConfig never returns nil.
C10_NoCrash ==
    /\ proc \in {"running", "exited"}
    /\ proc = "exited" => stderr \in {<<ReadDiag>>, <<UnmarshalDiag>>, <<SdkDiag>>}
    /\ (FirstCallOpen /\ Deserializes /\ SdkValid) => proc = "running"
    /\ \A r \in AllReturned : r.ptr # Nil

====
